---- MODULE Spec2Model ----
(***************************************************************************)
(* Dooplechat signaling server: the in-memory matchmaking engine           *)
(* (backend/src/matchmaking) and the WebSocket message handlers of the     *)
(* server (backend/src/server) that drive it.                              *)
(*                                                                         *)
(* Two specifications:                                                     *)
(*   SpecMM  the matchmaking module used through its exported functions    *)
(*           (createQueues / enqueueClient / removeFromQueues / tryMatch)  *)
(*           against a sessionId -> ClientInfo map, as the unit tests do;  *)
(*   Spec    the server: connections, the message switch, the close        *)
(*           handler and the 1 s grace timers.                             *)
(***************************************************************************)
EXTENDS Integers, Sequences, FiniteSets, TLC

VARIABLES
    sessionIdToClient,  \* Map<string, ClientInfo>: sessionId -> record, NoClient when absent
    mapOrder,           \* insertion order of the keys of sessionIdToClient (Map iteration order)
    queues,             \* MatchmakingQueues: two FIFOs and two interest-pool maps
    timers,             \* pending setTimeout callbacks, in firing order (all have the same delay)
    open,               \* WebSocket connections whose close event has not fired yet
    sent,               \* the send() calls made by the last step, in order
    last,               \* the last event processed: operation, arguments, pre-state of its session
    redis,              \* the shared Redis store and the tryDequeuePair calls in flight on it
    limiter,            \* the rate limiter: ipToWindow, the clock, and what was let through
    app,                \* the two browser clients of a pairing (App.tsx state of each side)
    rws                 \* one ResilientWS object of the frontend: its fields and its timers

vars == <<sessionIdToClient, mapOrder, queues, timers, open, sent, last, redis, limiter, app, rws>>
\* what the in-memory server and the matchmaking module never touch
OtherVars == <<redis, limiter, app, rws>>

(***************************************************************************)
(* Bounds of the model                                                     *)
(***************************************************************************)
MaxQueue == 2       \* Spec: ids left in the two FIFOs together when an event has been handled
MaxTimers == 1      \* Spec: pending grace timers
MaxQueueMM == 3     \* SpecMM: ids held by the two FIFOs together

SessionIds == {1, 2, 3}     \* stand for three distinct valid UUIDv4 strings, in string order
Conns == {1, 2}             \* WebSocket objects
Modes == {"text", "video"}

None == 0                   \* undefined / null (no sessionId, no connection)
NoClient == [sessionId |-> None]   \* Map.get() returning undefined
NoMatch == [a |-> None, b |-> None] \* tryMatch returning null

Range(s) == {s[i] : i \in 1..Len(s)}
MinOf(S) == CHOOSE x \in S : \A y \in S : x <= y

(***************************************************************************)
(* Strings.  The interests seen by the model are drawn from a few raw      *)
(* tokens; trim and toLowerCase are tabulated on them.                     *)
(***************************************************************************)
toLowerCase(s) ==
    CASE s = "X"  -> "x"
      [] s = " X" -> " x"
      [] OTHER    -> s

trim(s) ==
    CASE s = " x" -> "x"
      [] s = " X" -> "X"
      [] s = " "  -> ""
      [] OTHER    -> s

(***************************************************************************)
(* matchmaking.js                                                          *)
(***************************************************************************)
EmptyPools == [k \in {} |-> {}]

createQueues ==
    [ waiting_text |-> <<>>,
      waiting_video |-> <<>>,
      interestPoolsText |-> EmptyPools,
      interestPoolsVideo |-> EmptyPools ]

Waiting(q, mode) == IF mode = "video" THEN q.waiting_video ELSE q.waiting_text
Pools(q, mode) == IF mode = "video" THEN q.interestPoolsVideo ELSE q.interestPoolsText

\* queues with the FIFO and the pool map of `mode` replaced
WithMode(q, mode, waiting, pools) ==
    IF mode = "video"
    THEN [q EXCEPT !.waiting_video = waiting, !.interestPoolsVideo = pools]
    ELSE [q EXCEPT !.waiting_text = waiting, !.interestPoolsText = pools]

\* pools.get(key) ?? new Set(); set.add(sid); pools.set(key, set)   for every key
PoolAdd(pools, keys, sid) ==
    [k \in (DOMAIN pools) \cup keys |->
        (IF k \in DOMAIN pools THEN pools[k] ELSE {})
            \cup (IF k \in keys THEN {sid} ELSE {})]

\* set.delete(sid); if (set.size === 0) pools.delete(key)           for every key
PoolDel(pools, keys, sid) ==
    LET upd == [k \in DOMAIN pools |-> IF k \in keys THEN pools[k] \ {sid} ELSE pools[k]]
        keep == {k \in DOMAIN pools : ~(k \in keys /\ upd[k] = {})}
    IN  [k \in keep |-> upd[k]]

\* idx = waiting.indexOf(x); if (idx >= 0) waiting.splice(idx, 1)
SpliceFirst(waiting, x) ==
    IF x \in Range(waiting)
    THEN LET idx == MinOf({i \in 1..Len(waiting) : waiting[i] = x})
         IN  SubSeq(waiting, 1, idx - 1) \o SubSeq(waiting, idx + 1, Len(waiting))
    ELSE waiting

enqueueClient(q, client) ==
    LET keys == {toLowerCase(trim(i)) : i \in Range(client.interests)} \ {""}
    IN  WithMode(q, client.mode,
                 Append(Waiting(q, client.mode), client.sessionId),
                 PoolAdd(Pools(q, client.mode), keys, client.sessionId))

removeFromQueues(q, client) ==
    LET keys == {toLowerCase(i) : i \in Range(client.interests)}
    IN  WithMode(q, client.mode,
                 SpliceFirst(Waiting(q, client.mode), client.sessionId),
                 PoolDel(Pools(q, client.mode), keys, client.sessionId))

\* the Set built by lines 60-70 of tryMatch
CandidateSet(q, client) ==
    LET pools == Pools(q, client.mode)
        keys == {toLowerCase(i) : i \in Range(client.interests)}
    IN  (UNION {pools[k] : k \in keys \cap DOMAIN pools}) \ {client.sessionId}

\* the guard both scans of tryMatch apply to an id of the FIFO
Usable(sid, client, map) ==
    /\ sid # client.sessionId
    /\ map[sid] # NoClient
    /\ map[sid].mode = client.mode

MaxOf(S) == CHOOSE x \in S : \A y \in S : x >= y

\* Partner with both scans run from the tail of the FIFO
Partner_fromTail(q, client, map) ==
    LET waiting == Waiting(q, client.mode)
        cand == CandidateSet(q, client)
        byInterest == {i \in 1..Len(waiting) : waiting[i] \in cand /\ Usable(waiting[i], client, map)}
        byFifo == {i \in 1..Len(waiting) : Usable(waiting[i], client, map)}
    IN  IF cand # {} /\ byInterest # {} THEN waiting[MaxOf(byInterest)]
        ELSE IF byFifo # {} THEN waiting[MaxOf(byFifo)]
        ELSE None

\* Partner that gives up when the candidate set is non-empty but holds no usable id
Partner_noFallthrough(q, client, map) ==
    LET waiting == Waiting(q, client.mode)
        cand == CandidateSet(q, client)
        byInterest == {i \in 1..Len(waiting) : waiting[i] \in cand /\ Usable(waiting[i], client, map)}
        byFifo == {i \in 1..Len(waiting) : Usable(waiting[i], client, map)}
    IN  IF cand # {}
        THEN IF byInterest # {} THEN waiting[MinOf(byInterest)] ELSE None
        ELSE IF byFifo # {} THEN waiting[MinOf(byFifo)]
        ELSE None

\* the id tryMatch picks as partner, None when it returns null
Partner(q, client, map) ==
    LET waiting == Waiting(q, client.mode)
        cand == CandidateSet(q, client)
        byInterest == {i \in 1..Len(waiting) : waiting[i] \in cand /\ Usable(waiting[i], client, map)}
        byFifo == {i \in 1..Len(waiting) : Usable(waiting[i], client, map)}
    IN  IF cand # {} /\ byInterest # {} THEN waiting[MinOf(byInterest)]
        ELSE IF byFifo # {} THEN waiting[MinOf(byFifo)]
        ELSE None

\* tryMatch that takes the client out of the queues before it looks for a partner
tryMatch_removesFirst(q, client, map) ==
    LET sid == Partner(q, client, map)
    IN  IF sid = None
        THEN [res |-> NoMatch, queues |-> removeFromQueues(q, client)]
        ELSE [res |-> [a |-> client.sessionId, b |-> sid],
              queues |-> removeFromQueues(removeFromQueues(q, client), map[sid])]

\* result: the returned pair (NoMatch for null) and the queues as tryMatch leaves them
tryMatch(q, client, map) ==
    LET sid == Partner(q, client, map)
    IN  IF sid = None
        THEN [res |-> NoMatch, queues |-> q]
        ELSE [res |-> [a |-> client.sessionId, b |-> sid],
              queues |-> removeFromQueues(removeFromQueues(q, client), map[sid])]

\* ids held by the FIFOs / pools
InFifo(q, sid) == sid \in Range(q.waiting_text) \cup Range(q.waiting_video)
InPool(q, sid) ==
    \/ \E k \in DOMAIN q.interestPoolsText : sid \in q.interestPoolsText[k]
    \/ \E k \in DOMAIN q.interestPoolsVideo : sid \in q.interestPoolsVideo[k]
TotalLen(q) == Len(q.waiting_text) + Len(q.waiting_video)

(***************************************************************************)
(* redisMatchmaking.js: the store and the commands the helpers issue       *)
(***************************************************************************)
Instances == {1, 2}            \* relay instances sharing one store
RInterests == {"x"}

queueKey(mode) == <<"queue", mode>>
poolKey(mode, interest) == <<"pool", mode, interest>>

NoCall == [pc |-> "idle"]
\* an empty store, no call in flight
createStore ==
    [lists |-> [k \in {queueKey(m) : m \in Modes} |-> <<>>],
     sets |-> [k \in {poolKey(m, i) : m \in Modes, i \in RInterests} |-> {}],
     calls |-> [p \in Instances |-> NoCall]]

rPush(r, key, v) == [r EXCEPT !.lists[key] = Append(@, v)]
\* LREM key 0 v: every occurrence
lRem(r, key, v) == [r EXCEPT !.lists[key] = SelectSeq(@, LAMBDA e : e # v)]
lRange(r, key) == r.lists[key]
sAdd(r, key, v) == [r EXCEPT !.sets[key] = @ \cup {v}]
sRem(r, key, v) == [r EXCEPT !.sets[key] = @ \ {v}]
sMembers(r, key) == r.sets[key]

(***************************************************************************)
(* server.ts: the per-IP rate limiter in front of the message switch       *)
(***************************************************************************)
Ips == {1, 2}
\* req.socket.remoteAddress: connection w comes from address w
getIp(w) == w

rateLimiterConfig == [windowMs |-> 60000, max |-> 30]
\* ipToWindow.get(ip) returning undefined
NoWindow == [windowStart |-> None, count |-> 0]
\* an empty ipToWindow; processed[ip] counts the messages of ip that reached the switch
\* since the windowStart that ipToWindow holds for ip
createLimiter ==
    [ipToWindow |-> [ip \in Ips |-> NoWindow], now |-> 0, processed |-> [ip \in Ips |-> 0]]

\* no browser client, no ResilientWS object
NoApp == [phase |-> "none"]
NoRws == [phase |-> "none"]

(***************************************************************************)
(* SpecMM: the matchmaking module driven through its exported functions,   *)
(* the way tests/matchmaking.test.ts drives it: ClientInfo objects made by *)
(* mk() and put in a Map, then enqueued, removed and matched in any order; *)
(* a map entry may also be deleted while its id is still queued.           *)
(***************************************************************************)
MMInterests == { <<>>, <<"x">> }

mk(sessionId, mode, interests) ==
    [sessionId |-> sessionId, mode |-> mode, interests |-> interests,
     ws |-> None, pairedWith |-> None]

\* the event handled by the last step: its kind, the sessionId it named, and the peer that
\* session had (tryMatch: the partner returned), None when there is none
Last(op, sid, peer) == [op |-> op, sid |-> sid, peer |-> peer]
\* the same for a message whose handler answers the sending connection ws
LastFrom(op, sid, peer, ws) == [op |-> op, sid |-> sid, peer |-> peer, ws |-> ws]

InitMM ==
    /\ \E f \in [SessionIds -> Modes \X MMInterests] :
          sessionIdToClient = [s \in SessionIds |-> mk(s, f[s][1], f[s][2])]
    /\ mapOrder = <<>>
    /\ queues = createQueues
    /\ timers = <<>>
    /\ open = {}
    /\ sent = <<>>
    /\ last = Last("init", None, None)
    /\ redis = createStore
    /\ limiter = createLimiter
    /\ app = NoApp
    /\ rws = NoRws

\* map.delete(sid)
MMDelete(sid) ==
    /\ sessionIdToClient[sid] # NoClient
    /\ sessionIdToClient' = [sessionIdToClient EXCEPT ![sid] = NoClient]
    /\ last' = Last("delete", sid, None)
    /\ UNCHANGED <<mapOrder, queues, timers, open, sent, OtherVars>>

MMEnqueue(sid) ==
    /\ sessionIdToClient[sid] # NoClient
    /\ TotalLen(queues) < MaxQueueMM
    /\ queues' = enqueueClient(queues, sessionIdToClient[sid])
    /\ last' = Last("enqueueClient", sid, None)
    /\ UNCHANGED <<sessionIdToClient, mapOrder, timers, open, sent, OtherVars>>

MMRemove(sid) ==
    /\ sessionIdToClient[sid] # NoClient
    /\ queues' = removeFromQueues(queues, sessionIdToClient[sid])
    /\ last' = Last("removeFromQueues", sid, None)
    /\ UNCHANGED <<sessionIdToClient, mapOrder, timers, open, sent, OtherVars>>

\* last.peer is res.b, None when tryMatch returned null
MMTryMatch(sid) ==
    /\ sessionIdToClient[sid] # NoClient
    /\ LET m == tryMatch(queues, sessionIdToClient[sid], sessionIdToClient)
       IN  /\ queues' = m.queues
           /\ last' = Last("tryMatch", sid, m.res.b)
    /\ UNCHANGED <<sessionIdToClient, mapOrder, timers, open, sent, OtherVars>>

\* map.set(sid, mk(...)) on a key already present: the id gets a new ClientInfo of the
\* other mode while the queues still hold what the old one was enqueued with
MMRejoin(sid) ==
    /\ sid = 3
    /\ sessionIdToClient[sid] # NoClient
    /\ sessionIdToClient' =
          [sessionIdToClient EXCEPT ![sid].mode = IF @ = "video" THEN "text" ELSE "video"]
    /\ last' = Last("set", sid, None)
    /\ UNCHANGED <<mapOrder, queues, timers, open, sent, OtherVars>>

NextMM ==
    \/ \E s \in SessionIds : MMDelete(s)
    \/ \E s \in SessionIds : MMRejoin(s)
    \/ \E s \in SessionIds : MMEnqueue(s)
    \/ \E s \in SessionIds : MMRemove(s)
    \/ \E s \in SessionIds : MMTryMatch(s)

SpecMM == InitMM /\ [][NextMM]_vars

(***************************************************************************)
(* server.ts                                                               *)
(***************************************************************************)
SliceLen == 10

isValidUuidV4(candidate) == candidate \in SessionIds

SanitizeOne(x) == toLowerCase(trim(x))
NonEmpty(x) == x # ""

sanitizeInterests(interests) ==
    IF ~interests.isArray THEN <<>>
    ELSE LET kept == SelectSeq([i \in 1..Len(interests.items) |-> SanitizeOne(interests.items[i])], NonEmpty)
         IN  SubSeq(kept, 1, IF Len(kept) < SliceLen THEN Len(kept) ELSE SliceLen)

\* one send(ws, message) call
Msg(ws, type, text, peer) == [ws |-> ws, type |-> type, text |-> text, peer |-> peer]

\* the server's mutable state as one value, for the handlers below
Cur ==
    [map |-> sessionIdToClient, order |-> mapOrder, queues |-> queues,
     timers |-> timers, sent |-> <<>>]

\* sessionIdToClient.set(sid, info): a new key goes to the end of the iteration order
MapSet(st, info) ==
    [st EXCEPT !.map = [st.map EXCEPT ![info.sessionId] = info],
               !.order = IF info.sessionId \in Range(st.order) THEN st.order
                         ELSE Append(st.order, info.sessionId)]

\* sessionIdToClient.delete(sid)
MapDelete(st, sid) ==
    [st EXCEPT !.map = [st.map EXCEPT ![sid] = NoClient],
               !.order = SelectSeq(st.order, LAMBDA k : k # sid)]

Send(st, m) == [st EXCEPT !.sent = Append(st.sent, m)]

\* const attempt = tryMatch(queues, client, sessionIdToClient); if (attempt) {...} else send waiting
\* (server.ts 151-163, 207-219, 222-234)
MatchAndPair(st, client, ws) ==
    LET m == tryMatch(st.queues, client, st.map)
    IN  IF m.res # NoMatch
        THEN LET a == st.map[m.res.a]
                 b == st.map[m.res.b]
                 st1 == [st EXCEPT !.queues = m.queues]
             IN  IF a # NoClient /\ b # NoClient
                 THEN LET st2 == [st1 EXCEPT !.map[a.sessionId].pairedWith = b.sessionId]
                          st3 == [st2 EXCEPT !.map[b.sessionId].pairedWith = a.sessionId]
                      IN  Send(Send(st3, Msg(a.ws, "paired", "", b.sessionId)),
                               Msg(b.ws, "paired", "", a.sessionId))
                 ELSE st1
        ELSE Send(st, Msg(ws, "waiting", "", None))

\* the attemptMatch closure of the join handler
attemptMatch(st, sessionId, ws) ==
    LET current == st.map[sessionId]
    IN  IF current = NoClient THEN st ELSE MatchAndPair(st, current, ws)

JoinTimer(sessionId, ws) == [kind |-> "join", sessionId |-> sessionId, ws |-> ws]
\* the next handler's closure keeps the ClientInfo object c itself
NextTimer(c) ==
    [kind |-> "next",
     c |-> [sessionId |-> c.sessionId, mode |-> c.mode, interests |-> c.interests, ws |-> c.ws]]

SetTimeout(st, t) == [st EXCEPT !.timers = Append(st.timers, t)]

\* joinHandler that makes its match attempt at once, interests or not
joinHandler_noGrace(st, ws, sessionId, mode, rawInterests) ==
    IF ~isValidUuidV4(sessionId)
    THEN Send(st, Msg(ws, "error", "invalid_sessionId", None))
    ELSE IF mode # "text" /\ mode # "video"
    THEN Send(st, Msg(ws, "error", "invalid_mode", None))
    ELSE LET interests == sanitizeInterests(rawInterests)
             info == [sessionId |-> sessionId, mode |-> mode, interests |-> interests,
                      ws |-> ws, pairedWith |-> None]
             st1 == MapSet(st, info)
             st2 == [st1 EXCEPT !.queues = enqueueClient(st1.queues, info)]
         IN  attemptMatch(st2, sessionId, ws)

\* joinHandler without the mode check
joinHandler_anyMode(st, ws, sessionId, mode, rawInterests) ==
    IF ~isValidUuidV4(sessionId)
    THEN Send(st, Msg(ws, "error", "invalid_sessionId", None))
    ELSE LET interests == sanitizeInterests(rawInterests)
             info == [sessionId |-> sessionId, mode |-> mode, interests |-> interests,
                      ws |-> ws, pairedWith |-> None]
             st1 == MapSet(st, info)
             st2 == [st1 EXCEPT !.queues = enqueueClient(st1.queues, info)]
         IN  IF Len(interests) > 0
             THEN SetTimeout(st2, JoinTimer(sessionId, ws))
             ELSE attemptMatch(st2, sessionId, ws)

joinHandler(st, ws, sessionId, mode, rawInterests) ==
    IF ~isValidUuidV4(sessionId)
    THEN Send(st, Msg(ws, "error", "invalid_sessionId", None))
    ELSE IF mode # "text" /\ mode # "video"
    THEN Send(st, Msg(ws, "error", "invalid_mode", None))
    ELSE LET interests == sanitizeInterests(rawInterests)
             info == [sessionId |-> sessionId, mode |-> mode, interests |-> interests,
                      ws |-> ws, pairedWith |-> None]
             st1 == MapSet(st, info)
             st2 == [st1 EXCEPT !.queues = enqueueClient(st1.queues, info)]
         IN  IF Len(interests) > 0
             THEN SetTimeout(st2, JoinTimer(sessionId, ws))
             ELSE attemptMatch(st2, sessionId, ws)

\* NotifyPeer without `peer.pairedWith = undefined`
NotifyPeer_keepsPairing(st, c, text) ==
    IF c.pairedWith # None /\ st.map[c.pairedWith] # NoClient
    THEN Send(st, Msg(st.map[c.pairedWith].ws, "debug", text, None))
    ELSE st

\* if (c.pairedWith) { peer = get(c.pairedWith); if (peer) { peer.pairedWith = undefined; send } }
NotifyPeer(st, c, text) ==
    IF c.pairedWith # None /\ st.map[c.pairedWith] # NoClient
    THEN Send([st EXCEPT !.map[c.pairedWith].pairedWith = None],
              Msg(st.map[c.pairedWith].ws, "debug", text, None))
    ELSE st

leaveHandler(st, sessionId) ==
    LET c == st.map[sessionId]
    IN  IF c = NoClient THEN st
        ELSE LET st1 == NotifyPeer(st, c, "peer_left")
                 st2 == [st1 EXCEPT !.queues = removeFromQueues(st1.queues, c)]
             IN  MapDelete(st2, c.sessionId)

\* case "next" up to the match attempt, for a registered session: the pairing is torn
\* down, the peer re-enqueued, the requester moved to the tail
nextTeardown(st, sessionId) ==
    LET c == st.map[sessionId]
        hasPeer == c.pairedWith # None /\ st.map[c.pairedWith] # NoClient
        st1 == NotifyPeer(st, c, "peer_skipped")
        \* enqueueClient(queues, peer): peer as it is after its pairedWith was cleared
        st2 == IF hasPeer
               THEN [st1 EXCEPT !.queues = enqueueClient(st1.queues, st1.map[c.pairedWith])]
               ELSE st1
        st3 == [st2 EXCEPT !.map[sessionId].pairedWith = None]
        c3 == st3.map[sessionId]
    IN  [st3 EXCEPT !.queues = enqueueClient(removeFromQueues(st3.queues, c3), c3)]

nextHandler(st, sessionId) ==
    IF st.map[sessionId] = NoClient THEN st
    ELSE LET st4 == nextTeardown(st, sessionId)
             c3 == st4.map[sessionId]
         IN  IF Len(c3.interests) > 0
             THEN SetTimeout(st4, NextTimer(c3))
             ELSE MatchAndPair(st4, c3, c3.ws)

\* offer / answer / ice / message: forwarded verbatim to the session named by msg.to
RelayKinds == {"offer", "answer", "ice", "message"}
\* the body an inbound relay message of each type carries (sdp, candidate, text)
PayloadOf(kind) ==
    CASE kind = "offer" -> "sdp-offer"
      [] kind = "answer" -> "sdp-answer"
      [] kind = "ice" -> "candidate"
      [] OTHER -> "hello"

\* relayHandler that sends to the oldest registered session when msg.to names none
relayHandler_fallback(st, kind, to, payload) ==
    IF to # None /\ st.map[to] # NoClient
    THEN Send(st, Msg(st.map[to].ws, kind, payload, to))
    ELSE IF st.order # <<>>
    THEN Send(st, Msg(st.map[Head(st.order)].ws, kind, payload, Head(st.order)))
    ELSE st

\* relayHandler that forwards every message as a chat message
relayHandler_asMessage(st, kind, to, payload) ==
    IF to = None THEN st
    ELSE IF st.map[to] = NoClient THEN st
    ELSE Send(st, Msg(st.map[to].ws, "message", payload, to))

relayHandler(st, kind, to, payload) ==
    IF to = None THEN st
    ELSE IF st.map[to] = NoClient THEN st
    ELSE Send(st, Msg(st.map[to].ws, kind, payload, to))

reportHandler(st, sessionId) ==
    LET c == IF sessionId \in SessionIds THEN st.map[sessionId] ELSE NoClient
    IN  IF c # NoClient /\ c.pairedWith # None
        THEN LET st1 == NotifyPeer(st, c, "peer_reported")
             IN  [st1 EXCEPT !.map[sessionId].pairedWith = None]
        ELSE st

\* the first session, in Map iteration order, whose ws is the closed connection
FirstOf(st, ws) ==
    LET idx == {i \in 1..Len(st.order) : st.map[st.order[i]].ws = ws}
    IN  IF idx = {} THEN None ELSE st.order[MinOf(idx)]

\* closeHandler without `enqueueClient(queues, peer)`
closeHandler_noRequeue(st, ws) ==
    LET sid == FirstOf(st, ws)
    IN  IF sid = None THEN st
        ELSE LET c == st.map[sid]
                 st1 == NotifyPeer(st, c, "peer_disconnected")
                 st3 == [st1 EXCEPT !.queues = removeFromQueues(st1.queues, st1.map[sid])]
             IN  MapDelete(st3, sid)

closeHandler(st, ws) ==
    LET sid == FirstOf(st, ws)
    IN  IF sid = None THEN st
        ELSE LET c == st.map[sid]
                 hasPeer == c.pairedWith # None /\ st.map[c.pairedWith] # NoClient
                 st1 == NotifyPeer(st, c, "peer_disconnected")
                 st2 == IF hasPeer
                        THEN [st1 EXCEPT !.queues = enqueueClient(st1.queues, st1.map[c.pairedWith])]
                        ELSE st1
                 st3 == [st2 EXCEPT !.queues = removeFromQueues(st2.queues, st2.map[sid])]
             IN  MapDelete(st3, sid)

\* a grace timer fires
timerHandler(st, t) ==
    IF t.kind = "join"
    THEN attemptMatch(st, t.sessionId, t.ws)
    ELSE MatchAndPair(st, t.c, t.c.ws)

(***************************************************************************)
(* Spec: the server as a state machine.  Every step is one event of the    *)
(* Node event loop: a connection, one inbound message, a close, a timer.   *)
(***************************************************************************)
\* the registered peer named by the pairedWith of session sid, None when there is none
PeerOf(map, sid) ==
    IF sid = None THEN None
    ELSE IF map[sid] = NoClient THEN None
    ELSE IF map[sid].pairedWith = None THEN None
    ELSE IF map[map[sid].pairedWith] = NoClient THEN None
    ELSE map[sid].pairedWith

Commit(st) ==
    \E s \in {st} :
        /\ TotalLen(s.queues) <= MaxQueue
        /\ Len(s.timers) <= MaxTimers
        /\ sessionIdToClient' = s.map
        /\ mapOrder' = s.order
        /\ queues' = s.queues
        /\ timers' = s.timers
        /\ sent' = s.sent

\* a handler that ran behind the rate limiter's back: the limiter is not consulted
Apply(st) == Commit(st) /\ UNCHANGED OtherVars

Init ==
    /\ sessionIdToClient = [s \in SessionIds |-> NoClient]
    /\ mapOrder = <<>>
    /\ queues = createQueues
    /\ timers = <<>>
    /\ open = {}
    /\ sent = <<>>
    /\ last = Last("init", None, None)
    /\ redis = createStore
    /\ limiter = createLimiter
    /\ app = NoApp
    /\ rws = NoRws

\* a connection object still referenced by a session or a timer cannot stand for a new one
Referenced(w) ==
    \/ \E s \in SessionIds : sessionIdToClient[s] # NoClient /\ sessionIdToClient[s].ws = w
    \/ \E i \in 1..Len(timers) :
          IF timers[i].kind = "join" THEN timers[i].ws = w ELSE timers[i].c.ws = w

Connect(w) ==
    /\ w \notin open
    /\ ~Referenced(w)
    /\ open' = open \cup {w}
    /\ sent' = <<>>
    /\ last' = Last("connect", None, None)
    /\ UNCHANGED <<sessionIdToClient, mapOrder, queues, timers, OtherVars>>

Join(w, sid, mode, raw) ==
    /\ w \in open
    /\ Apply(joinHandler(Cur, w, sid, mode, raw))
    /\ last' = LastFrom(IF isValidUuidV4(sid) /\ mode \in Modes THEN "join" ELSE "badjoin",
                        sid, PeerOf(sessionIdToClient, sid), w)
    /\ UNCHANGED open

Leave(sid) ==
    /\ open # {}
    /\ sessionIdToClient[sid] # NoClient
    /\ Apply(leaveHandler(Cur, sid))
    /\ last' = Last("leave", sid, PeerOf(sessionIdToClient, sid))
    /\ UNCHANGED open

NextMsg(sid) ==
    /\ open # {}
    /\ sessionIdToClient[sid] # NoClient
    /\ Apply(nextHandler(Cur, sid))
    /\ last' = Last("next", sid, PeerOf(sessionIdToClient, sid))
    /\ UNCHANGED open

Relay(kind, to) ==
    /\ open # {}
    /\ Apply(relayHandler(Cur, kind, to, PayloadOf(kind)))
    /\ last' = Last(kind, to, None)
    /\ UNCHANGED open

Report(sid) ==
    /\ open # {}
    /\ sessionIdToClient[sid] # NoClient
    /\ Apply(reportHandler(Cur, sid))
    /\ last' = Last("report", sid, PeerOf(sessionIdToClient, sid))
    /\ UNCHANGED open

Close(w) ==
    /\ w \in open
    /\ open' = open \ {w}
    /\ Apply(closeHandler(Cur, w))
    /\ last' = Last("close", FirstOf(Cur, w), PeerOf(sessionIdToClient, FirstOf(Cur, w)))

Fire ==
    /\ timers # <<>>
    /\ Apply(timerHandler([Cur EXCEPT !.timers = Tail(timers)], Head(timers)))
    /\ last' = Last("timer", IF Head(timers).kind = "join" THEN Head(timers).sessionId
                             ELSE Head(timers).c.sessionId,
                    None)
    /\ UNCHANGED open

\* The joins the model sends: session 1 (text, one interest) and session 2 (text or video,
\* no interest) use connection 1, session 3 (text, no interest) uses connection 2.  Every
\* one of them may be sent again while its sessionId is registered.  Two more joins are
\* the ones the server rejects.
NoI == [isArray |-> TRUE, items |-> <<>>]
HasI == [isArray |-> TRUE, items |-> <<" X">>]
JoinInputs ==
    { <<1, 1, "text", HasI>>,
      <<1, 2, "text", NoI>>, <<1, 2, "video", NoI>>,
      <<2, 3, "text", NoI>>,
      <<2, 3, "audio", NoI>>, <<2, None, "text", NoI>> }   \* rejected: bad mode, bad sessionId

RelayInputs == {"offer", "message"}

Next ==
    \/ \E w \in Conns : Connect(w)
    \/ \E j \in JoinInputs : Join(j[1], j[2], j[3], j[4])
    \/ \E sid \in SessionIds : Leave(sid)
    \/ \E sid \in SessionIds : NextMsg(sid)
    \/ \E sid \in SessionIds : Report(sid)
    \/ \E kind \in RelayInputs, to \in SessionIds \cup {None} : Relay(kind, to)
    \/ \E w \in Conns : Close(w)
    \/ Fire

Spec == Init /\ [][Next]_vars

(***************************************************************************)
(* Properties                                                              *)
(***************************************************************************)
Registered(sid) == sessionIdToClient[sid] # NoClient
Client(sid) == sessionIdToClient[sid]
Count(seq, x) == Cardinality({i \in 1..Len(seq) : seq[i] = x})
PoolKeys(pools, sid) == {k \in DOMAIN pools : sid \in pools[k]}
Keys(client) == {toLowerCase(trim(i)) : i \in Range(client.interests)} \ {""}

\* C1: pairing is symmetric in every reachable server state: for registered sessions A
\* and B, A.pairedWith = B exactly when B.pairedWith = A.
C1_PairingSymmetric ==
    \A A \in SessionIds, B \in SessionIds :
        (Registered(A) /\ Registered(B)) =>
            (Client(A).pairedWith = B <=> Client(B).pairedWith = A)

\* C2: when tryMatch returns a pair {a, b}, neither a nor b is left in a FIFO or in an
\* interest pool of either mode.
C2_MatchedAreRemoved ==
    (last.op = "tryMatch" /\ last.peer # None) =>
        /\ ~InFifo(queues, last.sid) /\ ~InPool(queues, last.sid)
        /\ ~InFifo(queues, last.peer) /\ ~InPool(queues, last.peer)

\* C3: a session whose pairedWith is set is in no FIFO and in no interest pool.
C3_PairedNotQueued ==
    \A s \in SessionIds :
        (Registered(s) /\ Client(s).pairedWith # None) =>
            (~InFifo(queues, s) /\ ~InPool(queues, s))

\* C4: an id is in at most one of the two FIFOs, and then in the FIFO of its session's
\* registered mode; it is only in pools keyed by its session's own interests; and it is in
\* a FIFO or a pool only while its session is registered and unpaired.
C4_QueueMembership ==
    \A s \in SessionIds :
        /\ ~(s \in Range(queues.waiting_text) /\ s \in Range(queues.waiting_video))
        /\ (InFifo(queues, s) \/ InPool(queues, s)) =>
              /\ Registered(s)
              /\ Client(s).pairedWith = None
              /\ s \notin Range(Waiting(queues, IF Client(s).mode = "video" THEN "text" ELSE "video"))
              /\ PoolKeys(Pools(queues, Client(s).mode), s) \subseteq Keys(Client(s))
              /\ PoolKeys(Pools(queues, IF Client(s).mode = "video" THEN "text" ELSE "video"), s) = {}

\* positions of the FIFO of client's mode that hold another registered session of that
\* mode sharing an interest with client
SharingPositions(q, client, map) ==
    LET waiting == Waiting(q, client.mode)
    IN  {i \in 1..Len(waiting) :
            /\ waiting[i] # client.sessionId
            /\ map[waiting[i]] # NoClient
            /\ map[waiting[i]].mode = client.mode
            /\ Keys(map[waiting[i]]) \cap Keys(client) # {}}

\* C5: a client with an interest, when the FIFO of its mode holds another registered
\* same-mode session sharing an interest with it, is matched by tryMatch with the earliest
\* such session of the FIFO.
C5_InterestFirst ==
    [][\A c \in SessionIds :
          (/\ last'.op = "tryMatch" /\ last'.sid = c
           /\ Registered(c)
           /\ Keys(Client(c)) # {}
           /\ SharingPositions(queues, Client(c), sessionIdToClient) # {})
          => last'.peer = Waiting(queues, Client(c).mode)
                              [MinOf(SharingPositions(queues, Client(c), sessionIdToClient))]
      ]_vars

\* positions of the FIFO of client's mode that hold another registered session of that mode
EligiblePositions(q, client, map) ==
    LET waiting == Waiting(q, client.mode)
    IN  {i \in 1..Len(waiting) :
            /\ waiting[i] # client.sessionId
            /\ map[waiting[i]] # NoClient
            /\ map[waiting[i]].mode = client.mode}

\* C6: a client without interest candidates is matched by tryMatch with the first id of its
\* mode's FIFO that is not itself and is a registered session of the same mode.
C6_PlainFifo ==
    [][\A c \in SessionIds :
          (/\ last'.op = "tryMatch" /\ last'.sid = c
           /\ Registered(c)
           /\ CandidateSet(queues, Client(c)) = {}
           /\ EligiblePositions(queues, Client(c), sessionIdToClient) # {})
          => last'.peer = Waiting(queues, Client(c).mode)
                              [MinOf(EligiblePositions(queues, Client(c), sessionIdToClient))]
      ]_vars

\* a plain FIFO match was made past an id that was skipped: the client itself, an id whose
\* session is gone, or a session of the other mode
C6_Witness ==
    /\ last.op = "tryMatch" /\ last.peer # None
    /\ Registered(last.sid) /\ Keys(Client(last.sid)) = {}
    /\ \E s \in Range(Waiting(queues, Client(last.sid).mode)) :
          s # last.sid /\ (~Registered(s) \/ Client(s).mode # Client(last.sid).mode)

\* C7: after removeFromQueues(A), a tryMatch for A returns null and A is in no FIFO and in
\* no pool, whatever else is queued.
C7_RemovedIsNotMatched ==
    [][\A A \in SessionIds :
          (/\ last.op = "removeFromQueues" /\ last.sid = A
           /\ last'.op = "tryMatch" /\ last'.sid = A)
          => /\ last'.peer = None
             /\ ~InFifo(queues, A) /\ ~InPool(queues, A)
             /\ ~InFifo(queues', A) /\ ~InPool(queues', A)
      ]_vars

PeerStatus(op) ==
    CASE op = "leave" -> "peer_left"
      [] op = "report" -> "peer_reported"
      [] op = "close" -> "peer_disconnected"
      [] OTHER -> ""

\* C8: a leave, report or close handled for a session whose pairedWith names a registered
\* peer P leaves P.pairedWith empty and makes exactly one send: the peer-status
\* notification of that event, to P's connection.
C8_TeardownNotifies ==
    (last.op \in {"leave", "report", "close"} /\ last.peer # None) =>
        /\ Registered(last.peer)
        /\ Client(last.peer).pairedWith = None
        /\ sent = <<Msg(Client(last.peer).ws, "debug", PeerStatus(last.op), None)>>

C8_Witness ==
    /\ last.op = "close" /\ last.peer # None
    /\ Len(sent) = 1 /\ sent[1].text = "peer_disconnected"

\* C9: after leave(S) for a registered S, S has no registry record and is in no FIFO or
\* pool; a registered peer P of S stays registered with empty pairedWith and is not added
\* to a FIFO or pool.
C9_LeaveRemoves ==
    [][last'.op = "leave" =>
          /\ sessionIdToClient'[last'.sid] = NoClient
          /\ ~InFifo(queues', last'.sid) /\ ~InPool(queues', last'.sid)
          /\ last'.peer # None =>
                /\ sessionIdToClient'[last'.peer] # NoClient
                /\ sessionIdToClient'[last'.peer].pairedWith = None
                /\ Count(queues'.waiting_text, last'.peer) =< Count(queues.waiting_text, last'.peer)
                /\ Count(queues'.waiting_video, last'.peer) =< Count(queues.waiting_video, last'.peer)
                /\ PoolKeys(queues'.interestPoolsText, last'.peer)
                      \subseteq PoolKeys(queues.interestPoolsText, last'.peer)
                /\ PoolKeys(queues'.interestPoolsVideo, last'.peer)
                      \subseteq PoolKeys(queues.interestPoolsVideo, last'.peer)
      ]_vars

C11_ReportClosesReporter ==
    last.op = "report" =>
        /\ ~Registered(last.sid)
        /\ ~InFifo(queues, last.sid) /\ ~InPool(queues, last.sid)

\* C12: a grace timer that fires for a session that has no registry record any more
\* changes no FIFO, pool, registry record or pairedWith field and sends nothing.
C12_StaleTimerIsNoOp ==
    [][(last'.op = "timer" /\ sessionIdToClient[last'.sid] = NoClient) =>
          /\ sessionIdToClient' = sessionIdToClient
          /\ queues' = queues
          /\ sent' = <<>>
      ]_vars

\* C13: after the close of connection W no registry record whose connection is W is left,
\* and no id of such a record is left in a FIFO or a pool.
C13_CloseLeavesNoSession ==
    [][last'.op = "close" =>
          \A w \in open \ open' : \A s \in SessionIds :
              (sessionIdToClient[s] # NoClient /\ sessionIdToClient[s].ws = w) =>
                  /\ sessionIdToClient'[s] = NoClient
                  /\ ~InFifo(queues', s) /\ ~InPool(queues', s)
      ]_vars

\* C18: no id occurs twice in a mode FIFO, whatever operations were handled.
C18_EnqueueIdempotent ==
    \A s \in SessionIds :
        /\ Count(queues.waiting_text, s) <= 1
        /\ Count(queues.waiting_video, s) <= 1

\* C19: a join whose sessionId already has a registry record leaves that record
\* (connection, mode, interests, pairedWith) as it was.
C19_DuplicateJoinRejected ==
    [][(last'.op = "join" /\ sessionIdToClient[last'.sid] # NoClient) =>
          sessionIdToClient'[last'.sid] = sessionIdToClient[last'.sid]
      ]_vars

\* C15: a join with an invalid sessionId or an invalid mode makes exactly one send, the
\* error reply to the sender, and changes no registry record, FIFO, pool or timer.
C15_RejectedJoinMutatesNothing ==
    [][last'.op = "badjoin" =>
          /\ sent' = <<Msg(last'.ws, "error",
                           IF isValidUuidV4(last'.sid) THEN "invalid_mode" ELSE "invalid_sessionId",
                           None)>>
          /\ UNCHANGED <<sessionIdToClient, mapOrder, queues, timers>>
      ]_vars

C15_Witness ==
    /\ last.op = "badjoin" /\ last.sid # None
    /\ Len(sent) = 1 /\ sent[1].text = "invalid_mode"
    /\ \E s \in SessionIds : Registered(s) /\ InFifo(queues, s)

\* C16: an offer, answer, ice or message with no `to`, or whose `to` names no registered
\* session, makes no send at all and changes no registry record, FIFO, pool or timer.
C16_RelayToAbsentIsSilent ==
    [][(/\ last'.op \in RelayKinds
        /\ (last'.sid = None \/ sessionIdToClient[last'.sid] = NoClient)) =>
          /\ sent' = <<>>
          /\ UNCHANGED <<sessionIdToClient, mapOrder, queues, timers>>
      ]_vars

C16_Witness ==
    /\ last.op \in RelayKinds /\ last.sid # None /\ ~Registered(last.sid)
    /\ sent = <<>>
    /\ \E s \in SessionIds : Registered(s)

\* C17: an offer, answer, ice or message whose `to` names a registered session T makes
\* exactly one send: the same type, body and `to`, on T's connection, whatever the
\* pairings are; no registry record, FIFO, pool or timer changes.
C17_RelayToPresent ==
    [][(/\ last'.op \in RelayKinds /\ last'.sid # None
        /\ sessionIdToClient[last'.sid] # NoClient) =>
          /\ sent' = <<Msg(sessionIdToClient[last'.sid].ws, last'.op,
                           PayloadOf(last'.op), last'.sid)>>
          /\ UNCHANGED <<sessionIdToClient, mapOrder, queues, timers>>
      ]_vars

\* a message relayed to a session that is paired with nobody
C17_Witness ==
    /\ last.op = "offer" /\ last.sid # None /\ Registered(last.sid)
    /\ Client(last.sid).pairedWith = None
    /\ Len(sent) = 1 /\ sent[1].type = "offer" /\ sent[1].text = "sdp-offer"

\* occurrences of sid in the two FIFOs together
Queued(q, sid) == Count(q.waiting_text, sid) + Count(q.waiting_video, sid)
\* send() calls of a step that tell connection ws it is paired with peer
PairedSends(msgs, ws, peer) ==
    Cardinality({i \in 1..Len(msgs) :
                    msgs[i].type = "paired" /\ msgs[i].ws = ws /\ msgs[i].peer = peer})

\* C20: a match attempt of the server (in join, in next, from a grace timer) that takes a
\* session out of a FIFO leaves it registered and paired with a session that is paired
\* with it, and sends each of the two exactly one paired notification naming the other.
C20_MatchAllOrNothing ==
    [][last'.op \in {"join", "next", "timer"} =>
          \A s \in SessionIds :
              Queued(queues', s) < Queued(queues, s) =>
                  /\ sessionIdToClient'[s] # NoClient
                  /\ sessionIdToClient'[s].pairedWith # None
                  /\ LET p == sessionIdToClient'[s].pairedWith
                     IN  /\ sessionIdToClient'[p] # NoClient
                         /\ sessionIdToClient'[p].pairedWith = s
                         /\ PairedSends(sent', sessionIdToClient'[s].ws, p) = 1
                         /\ PairedSends(sent', sessionIdToClient'[p].ws, s) = 1
      ]_vars

\* C25: when next(S) is handled while S is paired with a registered peer P, then at the
\* point where S's match attempt begins both pairedWith fields are empty, P was sent
\* one peer_skipped notification and nothing else was sent, and the FIFO of S's mode
\* ends with P followed by S, each occurring in it exactly once.
C25_NextRequeuesPeerThenSelf ==
    [][(last'.op = "next" /\ last'.peer # None) =>
          LET t == nextTeardown(Cur, last'.sid)
              waiting == Waiting(t.queues, t.map[last'.sid].mode)
              n == Len(waiting)
          IN  /\ t.map[last'.sid].pairedWith = None
              /\ t.map[last'.peer].pairedWith = None
              /\ t.sent = <<Msg(t.map[last'.peer].ws, "debug", "peer_skipped", None)>>
              /\ n >= 2 /\ waiting[n - 1] = last'.peer /\ waiting[n] = last'.sid
              /\ Count(waiting, last'.peer) = 1
              /\ Count(waiting, last'.sid) = 1
      ]_vars

C27_StalePoolFallthrough ==
    [][\A c \in SessionIds :
          (/\ last'.op = "tryMatch" /\ last'.sid = c
           /\ Registered(c)
           /\ CandidateSet(queues, Client(c)) # {}
           /\ \A i \in EligiblePositions(queues, Client(c), sessionIdToClient) :
                  Waiting(queues, Client(c).mode)[i] \notin CandidateSet(queues, Client(c)))
          => last'.peer =
                IF EligiblePositions(queues, Client(c), sessionIdToClient) = {} THEN None
                ELSE Waiting(queues, Client(c).mode)
                         [MinOf(EligiblePositions(queues, Client(c), sessionIdToClient))]
      ]_vars

\* a client with an interest was matched with a session that has none, while another id
\* is still in the pool of the client's interest
C27_Witness ==
    /\ last.op = "tryMatch" /\ last.peer # None
    /\ Registered(last.sid) /\ Registered(last.peer)
    /\ Keys(Client(last.peer)) = {}
    /\ \E k \in Keys(Client(last.sid)) \cap DOMAIN Pools(queues, Client(last.sid).mode) :
          Pools(queues, Client(last.sid).mode)[k] \ {last.sid, last.peer} # {}

\* C28: when report(S) is handled while S is paired with a registered peer P, P is in the
\* same FIFOs and pools afterwards as before, P is still registered, P's pairedWith is
\* empty, and P is in no FIFO and no pool.
C28_ReportLeavesPeerMembership ==
    [][(last'.op = "report" /\ last'.peer # None) =>
          /\ Count(queues'.waiting_text, last'.peer) = Count(queues.waiting_text, last'.peer)
          /\ Count(queues'.waiting_video, last'.peer) = Count(queues.waiting_video, last'.peer)
          /\ PoolKeys(queues'.interestPoolsText, last'.peer)
                = PoolKeys(queues.interestPoolsText, last'.peer)
          /\ PoolKeys(queues'.interestPoolsVideo, last'.peer)
                = PoolKeys(queues.interestPoolsVideo, last'.peer)
          /\ sessionIdToClient'[last'.peer] # NoClient
          /\ sessionIdToClient'[last'.peer].pairedWith = None
          /\ ~InFifo(queues', last'.peer) /\ ~InPool(queues', last'.peer)
      ]_vars

\* SpecModes: the server with a session that has an interest and re-joins in the other
\* mode.  Session 1 joins as text with an interest or as video without, session 3 as text.
ModeJoinInputs ==
    { <<1, 1, "text", HasI>>, <<1, 1, "video", NoI>>, <<2, 3, "text", NoI>> }

NextModes ==
    \/ \E w \in Conns : Connect(w)
    \/ \E j \in ModeJoinInputs : Join(j[1], j[2], j[3], j[4])
    \/ \E sid \in SessionIds : Leave(sid)
    \/ \E sid \in SessionIds : NextMsg(sid)
    \/ \E w \in Conns : Close(w)
    \/ Fire

SpecModes == Init /\ [][NextModes]_vars

\* C30: two registered sessions that are paired with each other have the same mode.
C30_SameModePairing ==
    \A a, b \in SessionIds :
        (/\ Registered(a) /\ Registered(b)
         /\ Client(a).pairedWith = b /\ Client(b).pairedWith = a)
        => Client(a).mode = Client(b).mode

(***************************************************************************)
(* SpecRedis: two relay instances call tryDequeuePair on one store.  Every *)
(* awaited Redis command is one step; the steps of the two calls           *)
(* interleave freely.                                                      *)
(***************************************************************************)
MaxStore == 3          \* SpecRedis: ids in the list queue:text

RMode == "text"
\* the interests each session enqueues and dequeues with
RInterestsOf(sid) == IF sid \in {1, 2} THEN <<"x">> ELSE <<>>

\* enqueue(mm, mode, sessionId, interests): rPush, then sAdd for every interest
enqueue(r, mode, sessionId, interests) ==
    LET pushed == rPush(r, queueKey(mode), sessionId)
        keys == {poolKey(mode, interests[n]) : n \in 1..Len(interests)}
    IN  [pushed EXCEPT !.sets = [k \in DOMAIN @ |-> IF k \in keys THEN @[k] \cup {sessionId} ELSE @[k]]]

\* the control flow of tryDequeuePair between two awaits: an exhausted member list moves
\* on to the next interest, and after the last interest to the fallback
Continue(c) ==
    IF c.pc = "candidates" /\ c.members \ {c.sessionId} = {}
    THEN IF c.i < Len(c.interests)
         THEN [c EXCEPT !.pc = "sMembers", !.i = @ + 1]
         ELSE [c EXCEPT !.pc = "lRangeAll"]
    ELSE c

\* a call of tryDequeuePair(mm, mode, sessionId, interests) before its first command
tryDequeuePair(mode, sessionId, interests) ==
    [sessionId |-> sessionId, mode |-> mode, interests |-> interests,
     pc |-> IF Len(interests) > 0 THEN "sMembers" ELSE "lRangeAll",
     i |-> 1, k |-> 1, members |-> {}, target |-> None, result |-> None]

SetCall(r, p, c) == [r EXCEPT !.calls[p] = c]
ServerVars == <<sessionIdToClient, mapOrder, queues, timers, open, sent, last>>

InitRedis ==
    /\ Init

REnqueue(sid) ==
    /\ \A p \in Instances : redis.calls[p] = NoCall
    /\ Len(lRange(redis, queueKey(RMode))) < MaxStore
    /\ redis' = enqueue(redis, RMode, sid, RInterestsOf(sid))
    /\ UNCHANGED <<ServerVars, limiter, app, rws>>

\* instance p calls tryDequeuePair for a queued session; `last` keeps the list and the
\* sets as the call found them
RStart(p, sid) ==
    /\ redis.calls[p] = NoCall
    /\ sid \in Range(lRange(redis, queueKey(RMode)))
    /\ \A q \in Instances : redis.calls[q] # NoCall => redis.calls[q].sessionId # sid
    /\ redis' = SetCall(redis, p, tryDequeuePair(RMode, sid, RInterestsOf(sid)))
    /\ last' = [op |-> "tryDequeuePair", sid |-> sid, peer |-> None,
                lists |-> redis.lists, sets |-> redis.sets]
    /\ UNCHANGED <<sessionIdToClient, mapOrder, queues, timers, open, sent, limiter, app, rws>>

\* const members = await sMembers(poolKey(mode, i))
RSMembers(p) ==
    /\ redis.calls[p].pc = "sMembers"
    /\ LET c == redis.calls[p]
           members == sMembers(redis, poolKey(c.mode, c.interests[c.i]))
       IN  redis' = SetCall(redis, p, Continue([c EXCEPT !.pc = "candidates", !.members = members]))
    /\ UNCHANGED <<ServerVars, limiter, app, rws>>

\* the next candidate of the member list: const list = await lRange(queueKey(mode), 0, -1)
RLRangeCandidate(p) ==
    /\ redis.calls[p].pc = "candidates"
    /\ LET c == redis.calls[p]
       IN  \E candidate \in c.members \ {c.sessionId} :
              LET list == lRange(redis, queueKey(c.mode))
                  rest == [c EXCEPT !.members = @ \ {candidate}]
              IN  redis' = SetCall(redis, p,
                                   IF candidate \in Range(list)
                                   THEN [rest EXCEPT !.pc = "lRemSelf", !.target = candidate]
                                   ELSE Continue(rest))
    /\ UNCHANGED <<ServerVars, limiter, app, rws>>

\* fallback: const all = await lRange(queueKey(mode), 0, -1); first id other than self
RLRangeAll(p) ==
    /\ redis.calls[p].pc = "lRangeAll"
    /\ LET c == redis.calls[p]
           all == lRange(redis, queueKey(c.mode))
           others == {n \in 1..Len(all) : all[n] # c.sessionId}
       IN  redis' = SetCall(redis, p,
                            IF others # {}
                            THEN [c EXCEPT !.pc = "lRemSelf", !.target = all[MinOf(others)]]
                            ELSE [c EXCEPT !.pc = "done", !.result = None])
    /\ UNCHANGED <<ServerVars, limiter, app, rws>>

\* removeFromAll: await lRem(queueKey(mode), 0, sessionId)
RLRemSelf(p) ==
    /\ redis.calls[p].pc = "lRemSelf"
    /\ LET c == redis.calls[p]
       IN  redis' = SetCall(lRem(redis, queueKey(c.mode), c.sessionId), p,
                            [c EXCEPT !.pc = IF Len(c.interests) > 0 THEN "sRemSelf" ELSE "lRemTarget",
                                      !.k = 1])
    /\ UNCHANGED <<ServerVars, limiter, app, rws>>

\* removeFromAll: await sRem(poolKey(mode, i), sessionId), for each interest
RSRemSelf(p) ==
    /\ redis.calls[p].pc = "sRemSelf"
    /\ LET c == redis.calls[p]
       IN  redis' = SetCall(sRem(redis, poolKey(c.mode, c.interests[c.k]), c.sessionId), p,
                            [c EXCEPT !.pc = IF c.k < Len(c.interests) THEN "sRemSelf" ELSE "lRemTarget",
                                      !.k = @ + 1])
    /\ UNCHANGED <<ServerVars, limiter, app, rws>>

\* await lRem(queueKey(mode), 0, candidate); return candidate
RLRemTarget(p) ==
    /\ redis.calls[p].pc = "lRemTarget"
    /\ LET c == redis.calls[p]
       IN  redis' = SetCall(lRem(redis, queueKey(c.mode), c.target), p,
                            [c EXCEPT !.pc = "done", !.result = c.target])
    /\ UNCHANGED <<ServerVars, limiter, app, rws>>

NextRedis ==
    \/ \E sid \in SessionIds : REnqueue(sid)
    \/ \E p \in Instances, sid \in SessionIds : RStart(p, sid)
    \/ \E p \in Instances : RSMembers(p)
    \/ \E p \in Instances : RLRangeCandidate(p)
    \/ \E p \in Instances : RLRangeAll(p)
    \/ \E p \in Instances : RLRemSelf(p)
    \/ \E p \in Instances : RSRemSelf(p)
    \/ \E p \in Instances : RLRemTarget(p)

SpecRedis == InitRedis /\ [][NextRedis]_vars

\* the call of instance p has returned a partner
Returned(p) == redis.calls[p].pc = "done" /\ redis.calls[p].result # None

\* C14: two tryDequeuePair calls that ran concurrently on one store never return the same
\* session as partner, and a session returned as partner by one call is not given a
\* third session as partner by its own call.
C14_NoDoubleHandout ==
    \A p, q \in Instances :
        (p # q /\ Returned(p) /\ Returned(q)) =>
            /\ redis.calls[p].result # redis.calls[q].result
            /\ redis.calls[p].result = redis.calls[q].sessionId
                  => redis.calls[q].result = redis.calls[p].sessionId

\* the in-memory queues that a list and the sets of mode RMode mirror
Mirror(lists, sets) ==
    LET pools == [i \in {j \in RInterests : sets[poolKey(RMode, j)] # {}} |->
                      sets[poolKey(RMode, i)]]
    IN  WithMode(createQueues, RMode, lists[queueKey(RMode)], pools)

\* C24: a tryDequeuePair call that ran alone, on a store filled by enqueue calls only,
\* returns the partner tryMatch returns on the in-memory queues that the store mirrored
\* when the call began; the store it leaves mirrors the queues tryMatch leaves; and
\* neither the caller nor the returned partner is left in the list or in a set.
C24_AdapterEquivalence ==
    \A p \in Instances :
        (/\ redis.calls[p].pc = "done"
         /\ \A q \in Instances \ {p} : redis.calls[q] = NoCall)
        => LET c == redis.calls[p]
               map == [s \in SessionIds |-> mk(s, RMode, RInterestsOf(s))]
               m == tryMatch(Mirror(last.lists, last.sets), map[c.sessionId], map)
           IN  /\ c.result = (IF m.res = NoMatch THEN None ELSE m.res.b)
               /\ Mirror(redis.lists, redis.sets) = m.queues
               /\ c.result # None =>
                     \A s \in {c.sessionId, c.result} :
                         /\ s \notin Range(lRange(redis, queueKey(c.mode)))
                         /\ \A i \in RInterests : s \notin sMembers(redis, poolKey(c.mode, i))

(***************************************************************************)
(* server.ts: the message handler with its rate-limit guard (SpecRate)     *)
(***************************************************************************)
TickMs == 30000     \* the clock advances in steps of TickMs
MaxNow == 90000     \* and stops at MaxNow
MaxOver == 2        \* messages an address sends beyond the limit of its window
MaxQuiet == 2       \* messages per window of the second address

\* checkRateLimit with the comparison of its last line off by one
checkRateLimit_offByOne(lim, ip) ==
    LET info == lim.ipToWindow[ip]
        fresh == [windowStart |-> lim.now, count |-> 1]
    IN  IF info = NoWindow
        THEN [ok |-> TRUE, ipToWindow |-> [lim.ipToWindow EXCEPT ![ip] = fresh]]
        ELSE IF lim.now - info.windowStart > rateLimiterConfig.windowMs
        THEN [ok |-> TRUE, ipToWindow |-> [lim.ipToWindow EXCEPT ![ip] = fresh]]
        ELSE [ok |-> info.count + 1 <= rateLimiterConfig.max + 1,
              ipToWindow |-> [lim.ipToWindow EXCEPT ![ip].count = @ + 1]]

\* checkRateLimit(ip): its verdict and the ipToWindow it leaves behind
checkRateLimit(lim, ip) ==
    LET info == lim.ipToWindow[ip]
        fresh == [windowStart |-> lim.now, count |-> 1]
    IN  IF info = NoWindow
        THEN [ok |-> TRUE, ipToWindow |-> [lim.ipToWindow EXCEPT ![ip] = fresh]]
        ELSE IF lim.now - info.windowStart > rateLimiterConfig.windowMs
        THEN [ok |-> TRUE, ipToWindow |-> [lim.ipToWindow EXCEPT ![ip] = fresh]]
        ELSE [ok |-> info.count + 1 <= rateLimiterConfig.max,
              ipToWindow |-> [lim.ipToWindow EXCEPT ![ip].count = @ + 1]]

\* the messages of SpecRate: connection 1 speaks for session 1 (text, one interest),
\* connection 2 for session 3 (text, no interest)
RateKinds == {"join", "leave", "next"}
SidOf(w) == IF w = 1 THEN 1 ELSE 3
RawOf(w) == IF w = 1 THEN HasI ELSE NoI

\* switch (msg.type) of the message handler
Dispatch(st, w, type) ==
    CASE type = "join"   -> joinHandler(st, w, SidOf(w), "text", RawOf(w))
      [] type = "leave"  -> leaveHandler(st, SidOf(w))
      [] type = "next"   -> nextHandler(st, SidOf(w))

\* ws.on("message"): the parsed message goes through checkRateLimit(ip) first
OnMessage(w, type) ==
    /\ w \in open
    /\ type \in {"leave", "next"} => sessionIdToClient[SidOf(w)] # NoClient
    /\ limiter.ipToWindow[getIp(w)].count < rateLimiterConfig.max + MaxOver
    /\ w = 2 => limiter.ipToWindow[getIp(w)].count < MaxQuiet
    /\ LET r == checkRateLimit(limiter, getIp(w))
       IN  /\ limiter' = [limiter EXCEPT
                            !.ipToWindow = r.ipToWindow,
                            !.processed[getIp(w)] =
                                IF ~r.ok THEN @
                                ELSE IF r.ipToWindow[getIp(w)].count = 1 THEN 1 ELSE @ + 1]
           /\ IF r.ok THEN Commit(Dispatch(Cur, w, type))
                      ELSE Commit(Send(Cur, Msg(w, "error", "rate_limited", None)))
           /\ last' = LastFrom(IF r.ok THEN type ELSE "rate_limited", SidOf(w),
                               PeerOf(sessionIdToClient, SidOf(w)), w)
    /\ UNCHANGED <<open, redis, app, rws>>

\* Date.now() moves on
Tick ==
    /\ limiter.now + TickMs <= MaxNow
    /\ limiter' = [limiter EXCEPT !.now = @ + TickMs]
    /\ sent' = <<>>
    /\ last' = Last("tick", None, None)
    /\ UNCHANGED <<sessionIdToClient, mapOrder, queues, timers, open, redis, app, rws>>

InitRate ==
    /\ sessionIdToClient = [s \in SessionIds |-> NoClient]
    /\ mapOrder = <<>>
    /\ queues = createQueues
    /\ timers = <<>>
    /\ open = Conns
    /\ sent = <<>>
    /\ last = Last("init", None, None)
    /\ redis = createStore
    /\ limiter = createLimiter
    /\ app = NoApp
    /\ rws = NoRws

NextRate ==
    \/ \E w \in Conns, type \in RateKinds : OnMessage(w, type)
    \/ Tick
    \/ Fire

SpecRate == InitRate /\ [][NextRate]_vars

\* C22: a message that checkRateLimit rejects is answered with exactly one error reply
\* 'rate_limited' to its sender and leaves the registry, the FIFOs, the pools, the
\* pairings and the pending timers as they were; and of the messages of one address no
\* more than 30 reach the switch within one window of the limiter.
C22_RateLimitedMutatesNothing ==
    [][ /\ last'.op = "rate_limited" =>
             /\ sent' = <<Msg(last'.ws, "error", "rate_limited", None)>>
             /\ UNCHANGED <<sessionIdToClient, mapOrder, queues, timers>>
        /\ \A ip \in Ips : limiter'.processed[ip] <= rateLimiterConfig.max ]_vars

\* the 31st message of a window was rejected while a session is paired and a timer pends
C22_Witness ==
    /\ last.op = "rate_limited"
    /\ limiter.processed[1] = rateLimiterConfig.max
    /\ sessionIdToClient[1] # NoClient
    /\ timers # <<>>

(***************************************************************************)
(* App.tsx: the 'paired' branch of the two browser clients (SpecCaller)    *)
(***************************************************************************)
MaxIdLen == 2       \* session ids are strings of 1..MaxIdLen code units
MaxUnit == 3        \* over the code units 1..MaxUnit

\* the strings a client may hold as its sessionId (sessionStorage or uuidv4())
IdStrings == UNION { [1..n -> 1..MaxUnit] : n \in 1..MaxIdLen }

\* a < b on JavaScript strings: at the first index where they differ the code unit of a
\* is the smaller one, or a ends there
StrLess(a, b) ==
    \E k \in 1..Len(b) :
        /\ \A j \in 1..(k - 1) : j <= Len(a) /\ a[j] = b[j]
        /\ k <= Len(a) => a[k] < b[k]
        /\ k > Len(a) => k = Len(a) + 1

\* iAmCaller deciding on the first code unit alone
iAmCaller_firstUnit(sessionId, peerSessionId) == sessionId[1] < peerSessionId[1]

\* const iAmCaller = sessionId < msg.peerSessionId
iAmCaller(sessionId, peerSessionId) == StrLess(sessionId, peerSessionId)

Sides == {1, 2}
\* App state of one side before its 'paired' message: pairedWith is null
NotPaired == [paired |-> FALSE, iAmCaller |-> FALSE, offerTo |-> <<>>]

\* two clients, each with its own sessionId and the mode it chose, that the server pairs
InitCaller ==
    /\ sessionIdToClient = [s \in SessionIds |-> NoClient]
    /\ mapOrder = <<>>
    /\ queues = createQueues
    /\ timers = <<>>
    /\ open = {}
    /\ sent = <<>>
    /\ last = Last("init", None, None)
    /\ redis = createStore
    /\ limiter = createLimiter
    /\ \E x, y \in IdStrings, mode \in {"text", "video"} :
           app = [phase |-> "paired", sessionId |-> <<x, y>>, mode |-> mode,
                  side |-> [s \in Sides |-> NotPaired]]
    /\ rws = NoRws

\* ws.onMessage, msg.type === "paired", on side s: the caller creates and sends the offer
OnPaired(s) ==
    /\ ~app.side[s].paired
    /\ LET me == app.sessionId[s]
           peer == app.sessionId[3 - s]
           caller == iAmCaller(me, peer)
       IN  app' = [app EXCEPT !.side[s] =
                      [paired |-> TRUE, iAmCaller |-> caller,
                       offerTo |-> IF caller THEN peer ELSE <<>>]]
    /\ UNCHANGED <<sessionIdToClient, mapOrder, queues, timers, open, sent, last,
                   redis, limiter, rws>>

NextCaller == \E s \in Sides : OnPaired(s)

SpecCaller == InitCaller /\ [][NextCaller]_vars

\* C21: when the two sessionIds differ, the rule evaluated on both sides makes exactly
\* one side the caller, whichever side handles its 'paired' message first and whatever
\* the mode; that side, and only that side, sends the offer, addressed to the other.
C21_ExactlyOneCaller ==
    (/\ app.sessionId[1] # app.sessionId[2]
     /\ \A s \in Sides : app.side[s].paired)
        => \E s \in Sides :
               /\ app.side[s].iAmCaller /\ ~app.side[3 - s].iAmCaller
               /\ app.side[s].offerTo = app.sessionId[3 - s]
               /\ app.side[3 - s].offerTo = <<>>

\* both sides decided, the ids share their first code unit, side 2 is the caller
C21_Witness ==
    /\ \A s \in Sides : app.side[s].paired
    /\ app.sessionId[1] # app.sessionId[2]
    /\ app.sessionId[1][1] = app.sessionId[2][1]
    /\ app.side[2].iAmCaller

(***************************************************************************)
(* server.ts: join with arbitrary interests arrays (SpecJoin)              *)
(***************************************************************************)
MaxRaw == 3         \* every interests array of up to MaxRaw raw tokens is sent,

RawTokens == {"x", "X", " x", " ", "y"}
\* and one array longer than the slice: ten times "x", then "y"
LongRaw == [i \in 1..(SliceLen + 1) |-> IF i <= SliceLen THEN "x" ELSE "y"]
RawInputs ==
    {[isArray |-> FALSE, items |-> <<>>]} \cup
    {[isArray |-> TRUE, items |-> s] :
        s \in UNION { [1..n -> RawTokens] : n \in 0..MaxRaw } \cup {LongRaw}}

\* session 1 joins (again) in text mode over connection 1 with the interests `raw`
JoinRaw(raw) ==
    /\ 1 \in open
    /\ Apply(joinHandler(Cur, 1, 1, "text", raw))
    /\ last' = [op |-> "join", sid |-> 1, peer |-> None, ws |-> 1, raw |-> raw]
    /\ UNCHANGED open

NextJoin ==
    \/ Connect(1)
    \/ \E raw \in RawInputs : JoinRaw(raw)
    \/ Leave(1)
    \/ Fire

SpecJoin == Init /\ [][NextJoin]_vars

\* C23: after a join, the interests stored on the session are the distinct non-empty
\* tokens obtained by trimming and lower-casing the entries of the array, in the order of
\* their first occurrence, cut to the first 10 (nothing for a value that is no array).
C23_InterestsNormalized ==
    last.op = "join" =>
        LET t == [i \in 1..Len(last.raw.items) |-> toLowerCase(trim(last.raw.items[i]))]
            firsts == {i \in 1..Len(t) : t[i] # "" /\ \A j \in 1..(i - 1) : t[j] # t[i]}
            nth(k) == CHOOSE i \in firsts : Cardinality({j \in firsts : j < i}) = k - 1
            n == IF Cardinality(firsts) < 10 THEN Cardinality(firsts) ELSE 10
            stored == sessionIdToClient[last.sid].interests
        IN  IF ~last.raw.isArray THEN stored = <<>>
            ELSE /\ Len(stored) = n
                 /\ \A k \in 1..n : stored[k] = t[nth(k)]

(***************************************************************************)
(* wsClient.ts: one ResilientWS object and its sockets (SpecWS)            *)
(***************************************************************************)
MaxCreated == 7         \* sockets one ResilientWS object creates in a run

startBackoffMs == 500
maxBackoffMs == 5000

\* connect() without its shouldRun test
connect_unguarded(r) ==
    [r EXCEPT !.ws = "connecting", !.created = @ + 1]

\* private connect(): if (!this.shouldRun) return; this.ws = new WebSocket(this.url)
connect(r) ==
    IF ~r.shouldRun THEN r
    ELSE [r EXCEPT !.ws = "connecting", !.created = @ + 1]

\* ws.onopen; closes counts the close events since the last open
onopen(r) == [r EXCEPT !.ws = "open", !.backoffMs = 500, !.closes = 0]

\* ws.onclose: the timer is set with the current backoffMs, which is then doubled up to
\* maxBackoffMs; timer is the delay of the pending setTimeout, None when there is none
onclose(r) ==
    IF ~r.shouldRun THEN [r EXCEPT !.ws = "closed"]
    ELSE [r EXCEPT !.ws = "closed",
                   !.timer = r.backoffMs,
                   !.closes = @ + 1,
                   !.backoffMs = IF r.backoffMs * 2 < maxBackoffMs THEN r.backoffMs * 2
                                 ELSE maxBackoffMs]

\* this.ws?.close() on a socket: one that is connecting or open starts closing
SocketClose(r) == IF r.ws \in {"connecting", "open"} THEN [r EXCEPT !.ws = "closing"] ELSE r

\* close(): shouldRun = false; this.ws?.close().  createdAtClose keeps the number of
\* sockets created up to the first close()
close(r) ==
    SocketClose([r EXCEPT !.shouldRun = FALSE,
                          !.createdAtClose = IF r.shouldRun THEN r.created ELSE @])

\* the object as its constructor leaves it: fields at their initial values, connect() called
InitWS ==
    /\ sessionIdToClient = [s \in SessionIds |-> NoClient]
    /\ mapOrder = <<>>
    /\ queues = createQueues
    /\ timers = <<>>
    /\ open = {}
    /\ sent = <<>>
    /\ last = Last("constructor", None, None)
    /\ redis = createStore
    /\ limiter = createLimiter
    /\ app = NoApp
    /\ rws = connect([phase |-> "constructed", ws |-> "null", backoffMs |-> startBackoffMs,
                      shouldRun |-> TRUE, timer |-> None, closes |-> 0, created |-> 0,
                      createdAtClose |-> 0])

\* the socket's open event
WsOpen ==
    /\ rws.ws = "connecting"
    /\ rws' = onopen(rws)
    /\ last' = Last("onopen", None, None)
    /\ UNCHANGED <<sessionIdToClient, mapOrder, queues, timers, open, sent, redis, limiter, app>>

\* the socket's error event: onerror calls this.ws?.close()
WsError ==
    /\ rws.ws \in {"connecting", "open"}
    /\ rws' = SocketClose(rws)
    /\ last' = Last("onerror", None, None)
    /\ UNCHANGED <<sessionIdToClient, mapOrder, queues, timers, open, sent, redis, limiter, app>>

\* the socket's close event: the connection failed, was dropped, or was closed
WsClosed ==
    /\ rws.ws \in {"connecting", "open", "closing"}
    /\ rws' = onclose(rws)
    /\ last' = Last("onclose", None, None)
    /\ UNCHANGED <<sessionIdToClient, mapOrder, queues, timers, open, sent, redis, limiter, app>>

\* the pending reconnect timer fires: () => this.connect()
WsTimer ==
    /\ rws.timer # None
    /\ rws.shouldRun => rws.created < MaxCreated
    /\ rws' = connect([rws EXCEPT !.timer = None])
    /\ last' = Last("timer", None, None)
    /\ UNCHANGED <<sessionIdToClient, mapOrder, queues, timers, open, sent, redis, limiter, app>>

\* the application calls close()
WsClose ==
    /\ rws' = close(rws)
    /\ last' = Last("close", None, None)
    /\ UNCHANGED <<sessionIdToClient, mapOrder, queues, timers, open, sent, redis, limiter, app>>

NextWS == WsOpen \/ WsError \/ WsClosed \/ WsTimer \/ WsClose

SpecWS == InitWS /\ [][NextWS]_vars

\* C29: the reconnect delay is always between 500 and 5000 ms; the timer set by the k-th
\* close event since the last open (or since construction) has the delay
\* min(5000, 500 * 2^(k-1)); an open socket means the delay is back at 500; and once
\* close() was called no socket is created any more, not even by a pending timer.
C29_ReconnectBackoff ==
    /\ rws.backoffMs >= 500 /\ rws.backoffMs <= 5000
    /\ rws.timer # None =>
          /\ rws.timer >= 500 /\ rws.timer <= 5000
          /\ rws.closes >= 1
          /\ rws.timer = (IF 500 * 2^(rws.closes - 1) < 5000 THEN 500 * 2^(rws.closes - 1)
                          ELSE 5000)
    /\ rws.ws = "open" => rws.backoffMs = 500
    /\ ~rws.shouldRun => rws.created = rws.createdAtClose

\* a reconnect timer that was pending when close() was called has fired, after five
\* failed connections in a row, and created nothing
C29_Witness ==
    /\ last.op = "timer"
    /\ ~rws.shouldRun
    /\ rws.closes = 5
    /\ rws.backoffMs = 5000
    /\ rws.created = rws.createdAtClose

(***************************************************************************)
(* Further properties of the queues, the server and the signalling         *)
(***************************************************************************)
\* SpecRejoin: session 1 joins, and joins again, with any of the interests arrays of
\* SpecJoin, next to session 3, which joins as text without interests.
NextRejoin ==
    \/ \E w \in Conns : Connect(w)
    \/ \E raw \in RawInputs : JoinRaw(raw)
    \/ Join(2, 3, "text", NoI)
    \/ \E sid \in SessionIds : Leave(sid)
    \/ Fire

SpecRejoin == Init /\ [][NextRejoin]_vars

\* C31: every id held by an interest pool of a mode is in the FIFO of that mode, and the
\* pool maps hold no pool whose member set is empty.
C31_PoolFifoConsistency ==
    \A mode \in {"text", "video"} :
        \A k \in DOMAIN Pools(queues, mode) :
            /\ Pools(queues, mode)[k] # {}
            /\ Pools(queues, mode)[k] \subseteq Range(Waiting(queues, mode))

\* C32: a tryMatch call that returns null leaves both FIFOs and all pools exactly as they
\* were.
C32_FailedMatchChangesNothing ==
    [][(last'.op = "tryMatch" /\ last'.peer = None) => queues' = queues]_vars

\* tryMatch returned null for a queued client that is in a pool, with another id in its FIFO
C32_Witness ==
    /\ last.op = "tryMatch" /\ last.peer = None
    /\ Registered(last.sid)
    /\ last.sid \in Range(Waiting(queues, Client(last.sid).mode))
    /\ PoolKeys(Pools(queues, Client(last.sid).mode), last.sid) # {}
    /\ Range(Waiting(queues, Client(last.sid).mode)) \ {last.sid} # {}

\* C33: when no grace timer is pending, the FIFO of a mode holds at most one session that is
\* registered with that mode and unpaired.
C33_NoCompatibleLeftWaiting ==
    timers = <<>> =>
        \A mode \in {"text", "video"} :
            Cardinality({s \in Range(Waiting(queues, mode)) :
                            /\ Registered(s)
                            /\ Client(s).mode = mode
                            /\ Client(s).pairedWith = None}) <= 1

\* C34: a next of a session without interests that is paired with a registered peer P does
\* not leave the session paired with P again.
C34_NextGivesNewPartner ==
    [][(/\ last'.op = "next" /\ last'.peer # None
        /\ Len(sessionIdToClient[last'.sid].interests) = 0)
          => sessionIdToClient'[last'.sid].pairedWith # last'.peer
      ]_vars

\* C35: every waiting notification of a step goes to the connection of a session that, when
\* the step is over, is registered, unpaired and in the FIFO of its mode.
C35_WaitingAgreesWithState ==
    [][\A i \in 1..Len(sent') :
          sent'[i].type = "waiting" =>
              \E s \in SessionIds :
                  /\ sessionIdToClient'[s] # NoClient
                  /\ sessionIdToClient'[s].ws = sent'[i].ws
                  /\ sessionIdToClient'[s].pairedWith = None
                  /\ s \in Range(Waiting(queues', sessionIdToClient'[s].mode))
      ]_vars

(***************************************************************************)
(* App.tsx, signaling.ts and the relay cases of server.ts: two paired      *)
(* clients exchanging offer and answer through the server (SpecSignal)     *)
(***************************************************************************)
\* Two sessions joined in the same mode over connections 1 and 2 and the server paired
\* them; the two paired messages are on their way.  The client on connection s holds the
\* one-unit string <<n>> as sessionId when the server knows it as n.  app.wire holds the
\* messages in flight, "down" to a connection or "up" from it; app.answered the sides that
\* were handed an answer.
InitSignal ==
    /\ \E a, b \in SessionIds, mode \in {"text", "video"} :
          /\ a # b
          /\ \E st \in {joinHandler(
                           [joinHandler([map |-> [s \in SessionIds |-> NoClient], order |-> <<>>,
                                         queues |-> createQueues, timers |-> <<>>, sent |-> <<>>],
                                        1, a, mode, NoI)
                               EXCEPT !.sent = <<>>],
                           2, b, mode, NoI)} :
                /\ sessionIdToClient = st.map
                /\ mapOrder = st.order
                /\ queues = st.queues
                /\ timers = st.timers
                /\ sent = st.sent
                /\ app = [phase |-> "paired", sessionId |-> << <<a>>, <<b>> >>, mode |-> mode,
                          side |-> [s \in Sides |-> NotPaired],
                          wire |-> [i \in 1..Len(st.sent) |->
                                       [dir |-> "down", ws |-> st.sent[i].ws, type |-> st.sent[i].type,
                                        text |-> st.sent[i].text, peer |-> st.sent[i].peer]],
                          answered |-> {}]
    /\ open = Conns
    /\ last = Last("init", None, None)
    /\ redis = createStore
    /\ limiter = createLimiter
    /\ rws = NoRws

\* ws.onMessage of the client on connection s for the oldest message on its way down:
\* 'paired' decides the caller, who sends the offer to msg.peerSessionId; 'offer' is
\* answered with sendAnswer(msg.to ?? sessionId, ...), the closure's pairedWith being the
\* null of the first render; 'answer' is handed to the peer connection
ClientReceive(s) ==
    /\ \E i \in 1..Len(app.wire) :
          /\ app.wire[i].dir = "down" /\ app.wire[i].ws = s
          /\ \A j \in 1..(i - 1) : ~(app.wire[j].dir = "down" /\ app.wire[j].ws = s)
          /\ LET m == app.wire[i]
                 rest == SubSeq(app.wire, 1, i - 1) \o SubSeq(app.wire, i + 1, Len(app.wire))
                 up(type, to) == [dir |-> "up", ws |-> s, type |-> type,
                                  text |-> PayloadOf(type), peer |-> to]
                 caller == iAmCaller(app.sessionId[s], <<m.peer>>)
             IN  /\ m.type \in {"paired", "offer", "answer"}
                 /\ app' =
                      CASE m.type = "paired" ->
                             [app EXCEPT !.side[s] = [paired |-> TRUE, iAmCaller |-> caller,
                                                      offerTo |-> IF caller THEN <<m.peer>> ELSE <<>>],
                                         !.wire = IF caller THEN Append(rest, up("offer", m.peer))
                                                  ELSE rest]
                        [] m.type = "offer" ->
                             [app EXCEPT !.wire =
                                 Append(rest, up("answer", IF m.peer # None THEN m.peer
                                                           ELSE app.sessionId[s][1]))]
                        [] m.type = "answer" ->
                             [app EXCEPT !.wire = rest, !.answered = @ \cup {s}]
                 /\ last' = LastFrom(m.type, app.sessionId[s][1], m.peer, s)
    /\ UNCHANGED <<sessionIdToClient, mapOrder, queues, timers, open, sent, redis, limiter, rws>>

\* the server's message handler for the oldest message a connection has sent up: the
\* relay case, whose send() calls go down the wire
ServerReceive(w) ==
    /\ \E i \in 1..Len(app.wire) :
          /\ app.wire[i].dir = "up" /\ app.wire[i].ws = w
          /\ \A j \in 1..(i - 1) : ~(app.wire[j].dir = "up" /\ app.wire[j].ws = w)
          /\ \E st \in {relayHandler(Cur, app.wire[i].type, app.wire[i].peer, app.wire[i].text)} :
                /\ Commit(st)
                /\ app' = [app EXCEPT !.wire =
                             SubSeq(app.wire, 1, i - 1) \o SubSeq(app.wire, i + 1, Len(app.wire))
                                \o [k \in 1..Len(st.sent) |->
                                       [dir |-> "down", ws |-> st.sent[k].ws, type |-> st.sent[k].type,
                                        text |-> st.sent[k].text, peer |-> st.sent[k].peer]]]
                /\ last' = LastFrom("relay", app.wire[i].peer, None, w)
    /\ UNCHANGED <<open, redis, limiter, rws>>

NextSignal ==
    \/ \E s \in Sides : ClientReceive(s)
    \/ \E w \in Conns : ServerReceive(w)

SpecSignal == InitSignal /\ [][NextSignal]_vars

\* C36: every answer in flight comes from the side that is not the caller and is addressed
\* to the caller's sessionId on its way up and to the caller's connection on its way down;
\* no answer is handed to the session that sent it.
C36_AnswerReachesCaller ==
    /\ \A i \in 1..Len(app.wire) :
          app.wire[i].type = "answer" =>
              \E c \in Sides :
                  /\ app.side[c].paired /\ app.side[c].iAmCaller
                  /\ app.wire[i].peer = app.sessionId[c][1]
                  /\ app.wire[i].dir = "up" => app.wire[i].ws = 3 - c
                  /\ app.wire[i].dir = "down" => app.wire[i].ws = c
    /\ \A s \in app.answered : app.side[s].paired /\ app.side[s].iAmCaller

====
